---- MODULE Spec2Model ----
(***************************************************************************)
(* django-popularity, popularity/models.py: the ViewTracker table, its     *)
(* manager and the view-counting class methods, run by concurrent callers  *)
(* (request threads / processes) against one database.                     *)
(*                                                                         *)
(* Granularity.  Every database statement (SELECT, INSERT, UPDATE) is one  *)
(* atomic step; everything a caller does in Python between two statements  *)
(* happens on its private in-memory copy of the row.  Django writes start  *)
(* from Python: Model.save() first runs each field's pre_save (auto_now /  *)
(* auto_now_add read datetime.now() there) and then sends the statement,   *)
(* so reading the clock and writing the row are two steps.                 *)
(***************************************************************************)
EXTENDS Integers, FiniteSets, Sequences, TLC

\* ------------------------------------------------------------------ bounds
MaxTime == 1        \* the clock runs over 0..MaxTime
MaxCalls == 3       \* calls started over one behaviour
MaxStamp == 2       \* SpecQuery: stored timestamps and reference dates run over 0..MaxStamp
MaxViews == 1       \* SpecQuery: stored views run over 0..MaxViews
MaxList == 2        \* SpecQuery: get_for_objects / get_for_models take lists of up to MaxList
MaxLimit == 3       \* SpecQuery: get_recently_viewed's limit runs over 0..MaxLimit

Procs == {"p1", "p2"}                 \* concurrent callers
Entities == {<<1, 1>>, <<2, 1>>}      \* (content_type, object pk) of the tracked objects
Times == 0..MaxTime
QueryCallers == {"p1"}                \* SpecQuery: the caller of the read-only queries
QueryEntities == {<<1, 1>>, <<1, 2>>, <<2, 1>>}   \* SpecQuery: the objects that may have a row
QueryModels == {1, 2}                 \* SpecQuery: content types of the models asked for
Stamps == 0..MaxStamp

VARIABLES
    rows,       \* the ViewTracker table: a set of row records
    nextId,     \* the table's auto-increment primary key
    now,        \* datetime.now()
    pc,         \* pc[p]: where caller p stands
    op,         \* op[p]: the method caller p runs
    ent,        \* ent[p]: the content_object it was given, as (content_type, pk)
    vt,         \* vt[p]: the caller's in-memory ViewTracker instance
    created,    \* created[p]: get_or_create's second result
    caught,     \* caught[p]: get_or_create holds the IntegrityError of its INSERT
    ret,        \* ret[p]: what the call returned or raised
    args,       \* args[p]: the arguments of the query caller p made
    calls,      \* number of calls started (bounds the behaviour)
    saves,      \* saves[e]: add_view_for calls on e that have performed their save
    overlap     \* overlap[e]: two add_view_for calls on e have been in progress at once

vars == <<rows, nextId, now, pc, op, ent, vt, created, caught, ret, args, calls, saves, overlap>>

\* ------------------------------------------------------------------ the model class
\* An unsaved / absent instance.
NoRow == [id |-> 0, content_type |-> 0, object_id |-> 0,
          first_view |-> 0, last_view |-> 0, views |-> 0]

\* A ViewTracker instance: the fields of the model class.
ViewTracker(id, ct, oid, fv, lv, v) ==
    [id |-> id, content_type |-> ct, object_id |-> oid,
     first_view |-> fv, last_view |-> lv, views |-> v]

\* views = PositiveIntegerField(default=0)
DefaultViews == 0

\* first_view = DateTimeField(auto_now_add=True): pre_save sets it to
\* datetime.now() when the row is being added, and keeps it otherwise.
PreSaveFirstViewAlways(inst, add, t) == t
PreSaveFirstView(inst, add, t) == IF add THEN t ELSE inst.first_view

\* last_view = DateTimeField(auto_now=True): pre_save sets it to
\* datetime.now() on every save.
PreSaveLastView(inst, add, t) == t

\* ------------------------------------------------------------------ the table
\* filter(content_type=ct, object_id=pk)
Filter(rs, ct, oid) == {r \in rs : r.content_type = ct /\ r.object_id = oid}

\* unique_together = ('content_type', 'object_id'): the INSERT of a second
\* row with the same pair is refused (IntegrityError).
UniqueViolationNever(rs, ct, oid) == FALSE
UniqueViolation(rs, ct, oid) == Filter(rs, ct, oid) # {}

\* UPDATE ... SET <every field> WHERE id = inst.id
UpdateAll(rs, inst) == {inst : r \in rs}
Update(rs, inst) == {IF r.id = inst.id THEN inst ELSE r : r \in rs}

\* What a call hands back: a record, a number, the rows of an evaluated
\* QuerySet in their order, or an exception.
Nothing == [kind |-> "none", rec |-> NoRow, val |-> 0, recs |-> <<>>]
Returned(r) == [kind |-> "record", rec |-> r, val |-> 0, recs |-> <<>>]
ReturnedInt(n) == [kind |-> "int", rec |-> NoRow, val |-> n, recs |-> <<>>]
ReturnedList(s) == [kind |-> "list", rec |-> NoRow, val |-> 0, recs |-> s]
Raised(exc) == [kind |-> exc, rec |-> NoRow, val |-> 0, recs |-> <<>>]

\* Manager.get(content_type=ct, object_id=pk): the one matching row, or
\* DoesNotExist / MultipleObjectsReturned.
GetMissing(rs, ct, oid) == Raised("DoesNotExist")
GetOrNone(rs, ct, oid) ==
    LET m == Filter(rs, ct, oid) IN
    IF m = {} THEN Returned(NoRow) ELSE Returned(CHOOSE r \in m : TRUE)
Get(rs, ct, oid) ==
    LET m == Filter(rs, ct, oid) IN
    IF m = {} THEN Raised("DoesNotExist")
    ELSE IF Cardinality(m) > 1 THEN Raised("MultipleObjectsReturned")
    ELSE Returned(CHOOSE r \in m : TRUE)

\* ------------------------------------------------------------------ state
TypeOK ==
    /\ nextId \in 1..(MaxCalls + 1)
    /\ now \in Times
    /\ calls \in 0..MaxCalls
    /\ pc \in [Procs -> {"idle", "goc_get", "goc_presave", "goc_insert", "goc_reget",
                         "increment", "save", "done"}]
    /\ op \in [Procs -> {"none", "add_view_for", "get_for_object_create",
                         "get_for_object", "get_views_for", "get_age", "select_age",
                         "get_recently_viewed", "get_for_model", "get_for_models",
                         "get_for_objects"}]
    /\ ent \in [Procs -> Entities]
    /\ created \in [Procs -> BOOLEAN]
    /\ caught \in [Procs -> BOOLEAN]
    /\ saves \in [Entities -> 0..MaxCalls]
    /\ overlap \in [Entities -> BOOLEAN]

Init ==
    /\ rows = {}
    /\ nextId = 1
    /\ now = 0
    /\ pc = [p \in Procs |-> "idle"]
    /\ op = [p \in Procs |-> "none"]
    /\ ent = [p \in Procs |-> <<1, 1>>]
    /\ vt = [p \in Procs |-> NoRow]
    /\ created = [p \in Procs |-> FALSE]
    /\ caught = [p \in Procs |-> FALSE]
    /\ ret = [p \in Procs |-> Nothing]
    /\ args = [p \in Procs |-> <<>>]
    /\ calls = 0
    /\ saves = [e \in Entities |-> 0]
    /\ overlap = [e \in Entities |-> FALSE]

\* Caller q is inside add_view_for(e).
InAddView(q, e) == pc[q] # "idle" /\ op[q] = "add_view_for" /\ ent[q] = e

\* ------------------------------------------------------------------ calls
\* ViewTracker.add_view_for(content_object): enters get_for_object(create=True).
AddViewFor(p, e) ==
    /\ pc[p] = "idle"
    /\ calls < MaxCalls
    /\ calls' = calls + 1
    /\ pc' = [pc EXCEPT ![p] = "goc_get"]
    /\ op' = [op EXCEPT ![p] = "add_view_for"]
    /\ ent' = [ent EXCEPT ![p] = e]
    /\ overlap' = [overlap EXCEPT ![e] = @ \/ (\E q \in Procs \ {p} : InAddView(q, e))]
    /\ UNCHANGED <<rows, nextId, now, vt, created, caught, ret, saves, args>>

\* objects.get_for_object(content_object, create=True) called on its own.
GetForObjectCreate(p, e) ==
    /\ pc[p] = "idle"
    /\ calls < MaxCalls
    /\ calls' = calls + 1
    /\ pc' = [pc EXCEPT ![p] = "goc_get"]
    /\ op' = [op EXCEPT ![p] = "get_for_object_create"]
    /\ ent' = [ent EXCEPT ![p] = e]
    /\ UNCHANGED <<rows, nextId, now, vt, created, caught, ret, saves, overlap, args>>

\* get_or_create, first statement: self.get(**kwargs).
GocGet(p) ==
    /\ pc[p] = "goc_get"
    /\ LET g == Get(rows, ent[p][1], ent[p][2]) IN
       IF g.kind = "record"
       THEN /\ vt' = [vt EXCEPT ![p] = g.rec]
            /\ created' = [created EXCEPT ![p] = FALSE]
            /\ pc' = [pc EXCEPT ![p] = IF op[p] = "add_view_for" THEN "increment" ELSE "done"]
            /\ ret' = [ret EXCEPT ![p] = IF op[p] = "add_view_for" THEN Nothing ELSE Returned(g.rec)]
       ELSE IF g.kind = "DoesNotExist"
       THEN /\ pc' = [pc EXCEPT ![p] = "goc_presave"]
            /\ UNCHANGED <<vt, created, ret>>
       ELSE /\ pc' = [pc EXCEPT ![p] = "done"]
            /\ ret' = [ret EXCEPT ![p] = g]
            /\ UNCHANGED <<vt, created>>
    /\ UNCHANGED <<rows, nextId, now, op, ent, caught, calls, saves, overlap, args>>

\* get_or_create, DoesNotExist branch: build the instance and run the
\* fields' pre_save for an INSERT (add = TRUE).
GocPreSave(p) ==
    /\ pc[p] = "goc_presave"
    /\ LET inst == ViewTracker(0, ent[p][1], ent[p][2], 0, 0, DefaultViews) IN
       vt' = [vt EXCEPT ![p] =
                [inst EXCEPT !.first_view = PreSaveFirstView(inst, TRUE, now),
                             !.last_view = PreSaveLastView(inst, TRUE, now)]]
    /\ pc' = [pc EXCEPT ![p] = "goc_insert"]
    /\ UNCHANGED <<rows, nextId, now, op, ent, created, caught, ret, calls, saves, overlap, args>>

\* get_or_create: the INSERT.  The unique constraint refuses a second row
\* for the pair; get_or_create catches that IntegrityError and goes back
\* to self.get.
GocInsert(p) ==
    /\ pc[p] = "goc_insert"
    /\ IF UniqueViolation(rows, ent[p][1], ent[p][2])
       THEN /\ pc' = [pc EXCEPT ![p] = "goc_reget"]
            /\ vt' = [vt EXCEPT ![p] = NoRow]
            /\ caught' = [caught EXCEPT ![p] = TRUE]
            /\ UNCHANGED <<rows, nextId, created, ret>>
       ELSE LET new == [vt[p] EXCEPT !.id = nextId] IN
            /\ rows' = rows \cup {new}
            /\ nextId' = nextId + 1
            /\ vt' = [vt EXCEPT ![p] = new]
            /\ created' = [created EXCEPT ![p] = TRUE]
            /\ pc' = [pc EXCEPT ![p] = IF op[p] = "add_view_for" THEN "increment" ELSE "done"]
            /\ ret' = [ret EXCEPT ![p] = IF op[p] = "add_view_for" THEN Nothing ELSE Returned(new)]
            /\ UNCHANGED caught
    /\ UNCHANGED <<now, op, ent, calls, saves, overlap, args>>

\* What get_or_create does with the IntegrityError of its INSERT: get the
\* row again, and re-raise the error if it is still not there.
OnIntegrityErrorRaise(g) == Raised("IntegrityError")
OnIntegrityError(g) == IF g.kind = "record" THEN g ELSE Raised("IntegrityError")

GocReget(p) ==
    /\ pc[p] = "goc_reget"
    /\ LET g == OnIntegrityError(Get(rows, ent[p][1], ent[p][2])) IN
       IF g.kind = "record"
       THEN /\ vt' = [vt EXCEPT ![p] = g.rec]
            /\ created' = [created EXCEPT ![p] = FALSE]
            /\ pc' = [pc EXCEPT ![p] = IF op[p] = "add_view_for" THEN "increment" ELSE "done"]
            /\ ret' = [ret EXCEPT ![p] = IF op[p] = "add_view_for" THEN Nothing ELSE Returned(g.rec)]
       ELSE /\ pc' = [pc EXCEPT ![p] = "done"]
            /\ ret' = [ret EXCEPT ![p] = g]
            /\ UNCHANGED <<vt, created>>
    /\ UNCHANGED <<rows, nextId, now, op, ent, caught, calls, saves, overlap, args>>

\* increment(): self.views = self.views + 1, then save() runs the fields'
\* pre_save for an UPDATE (add = FALSE).
IncrementedNot(inst) == inst
IncrementedTwice(inst) == [inst EXCEPT !.views = inst.views + 2]
Incremented(inst) == [inst EXCEPT !.views = inst.views + 1]

Increment(p) ==
    /\ pc[p] = "increment"
    /\ LET inc == Incremented(vt[p]) IN
       vt' = [vt EXCEPT ![p] =
                [inc EXCEPT !.first_view = PreSaveFirstView(inc, FALSE, now),
                            !.last_view = PreSaveLastView(inc, FALSE, now)]]
    /\ pc' = [pc EXCEPT ![p] = "save"]
    /\ UNCHANGED <<rows, nextId, now, op, ent, created, caught, ret, calls, saves, overlap, args>>

\* increment(): save() sends the UPDATE of the whole row; add_view_for
\* returns the instance.
Save(p) ==
    /\ pc[p] = "save"
    /\ rows' = Update(rows, vt[p])
    /\ saves' = [saves EXCEPT ![ent[p]] = @ + 1]
    /\ pc' = [pc EXCEPT ![p] = "done"]
    /\ ret' = [ret EXCEPT ![p] = Returned(vt[p])]
    /\ UNCHANGED <<nextId, now, op, ent, vt, created, caught, calls, overlap, args>>

\* objects.get_for_object(content_object): create=False, one SELECT.
GetForObject(p, e) ==
    /\ pc[p] = "idle"
    /\ calls < MaxCalls
    /\ calls' = calls + 1
    /\ pc' = [pc EXCEPT ![p] = "done"]
    /\ op' = [op EXCEPT ![p] = "get_for_object"]
    /\ ent' = [ent EXCEPT ![p] = e]
    /\ ret' = [ret EXCEPT ![p] = Get(rows, e[1], e[2])]
    /\ UNCHANGED <<rows, nextId, now, vt, created, caught, saves, overlap, args>>

\* ViewTracker.get_views_for(content_object): 0 on DoesNotExist, else views.
ViewsOfUncaught(g) == IF g.kind = "record" THEN ReturnedInt(g.rec.views) ELSE g
ViewsOf(g) ==
    IF g.kind = "DoesNotExist" THEN ReturnedInt(0)
    ELSE IF g.kind = "record" THEN ReturnedInt(g.rec.views)
    ELSE g

GetViewsFor(p, e) ==
    /\ pc[p] = "idle"
    /\ calls < MaxCalls
    /\ calls' = calls + 1
    /\ pc' = [pc EXCEPT ![p] = "done"]
    /\ op' = [op EXCEPT ![p] = "get_views_for"]
    /\ ent' = [ent EXCEPT ![p] = e]
    /\ ret' = [ret EXCEPT ![p] = ViewsOf(Get(rows, e[1], e[2]))]
    /\ UNCHANGED <<rows, nextId, now, vt, created, caught, saves, overlap, args>>

\* The call is over: the caller drops its instance and result.
Return(p) ==
    /\ pc[p] = "done"
    /\ pc' = [pc EXCEPT ![p] = "idle"]
    /\ op' = [op EXCEPT ![p] = "none"]
    /\ vt' = [vt EXCEPT ![p] = NoRow]
    /\ created' = [created EXCEPT ![p] = FALSE]
    /\ caught' = [caught EXCEPT ![p] = FALSE]
    /\ ent' = [ent EXCEPT ![p] = <<1, 1>>]
    /\ ret' = [ret EXCEPT ![p] = Nothing]
    /\ args' = [args EXCEPT ![p] = <<>>]
    /\ UNCHANGED <<rows, nextId, now, calls, saves, overlap>>

\* The clock advances.
Tick ==
    /\ now < MaxTime
    /\ now' = now + 1
    /\ UNCHANGED <<rows, nextId, pc, op, ent, vt, created, caught, ret, calls, saves, overlap, args>>

Next ==
    \/ \E p \in Procs, e \in Entities : AddViewFor(p, e)
    \/ \E p \in Procs, e \in Entities : GetForObjectCreate(p, e)
    \/ \E p \in Procs, e \in Entities : GetForObject(p, e)
    \/ \E p \in Procs, e \in Entities : GetViewsFor(p, e)
    \/ \E p \in Procs : GocGet(p)
    \/ \E p \in Procs : GocPreSave(p)
    \/ \E p \in Procs : GocInsert(p)
    \/ \E p \in Procs : GocReget(p)
    \/ \E p \in Procs : Increment(p)
    \/ \E p \in Procs : Save(p)
    \/ \E p \in Procs : Return(p)
    \/ Tick

Spec == Init /\ [][Next]_vars

\* ------------------------------------------------------------------ queries
\* The read-only queries, run by one caller on a table that earlier calls
\* have filled: at most one row per object, first_view <= last_view <= now,
\* and a row not yet incremented still has the last_view of its INSERT.
StoredRows(e) ==
    {ViewTracker(0, e[1], e[2], fv, lv, v) :
        fv \in Stamps, lv \in Stamps, v \in 0..MaxViews}

\* The rows get primary keys in the order of their objects.
KeyOf(e) == IF e = <<1, 1>> THEN 1 ELSE IF e = <<1, 2>> THEN 2 ELSE 3

InitQuery ==
    /\ \E f \in [QueryEntities -> {NoRow} \cup UNION {StoredRows(e) : e \in QueryEntities}] :
          /\ \A e \in QueryEntities :
                f[e] # NoRow => /\ f[e].content_type = e[1] /\ f[e].object_id = e[2]
                                /\ f[e].first_view <= f[e].last_view
                                /\ f[e].views = DefaultViews => f[e].last_view = f[e].first_view
          /\ rows = {[f[e] EXCEPT !.id = KeyOf(e)] : e \in {x \in QueryEntities : f[x] # NoRow}}
    /\ nextId = 4
    /\ now = MaxStamp
    /\ pc = [p \in Procs |-> "idle"]
    /\ op = [p \in Procs |-> "none"]
    /\ ent = [p \in Procs |-> <<1, 1>>]
    /\ vt = [p \in Procs |-> NoRow]
    /\ created = [p \in Procs |-> FALSE]
    /\ caught = [p \in Procs |-> FALSE]
    /\ ret = [p \in Procs |-> Nothing]
    /\ args = [p \in Procs |-> <<>>]
    /\ calls = 0
    /\ saves = [e \in Entities |-> 0]
    /\ overlap = [e \in Entities |-> FALSE]

\* refdate=None, the default of get_age and select_age.
NoRefdate == -1

\* "if not refdate: refdate = datetime.now()"
RefdateOrNow(refdate, t) == IF refdate = NoRefdate THEN t ELSE refdate

\* ViewTracker.get_age(refdate): the assert, then refdate - self.first_view.
GetAgeUnchecked(inst, refdate, t) == ReturnedInt(RefdateOrNow(refdate, t) - inst.first_view)
GetAgeResult(inst, refdate, t) ==
    LET rd == RefdateOrNow(refdate, t) IN
    IF rd >= inst.first_view THEN ReturnedInt(rd - inst.first_view)
    ELSE Raised("AssertionError")

\* A caller holding the instance of a stored row calls get_age on it.
GetAge(p, r, refdate) ==
    /\ pc[p] = "idle"
    /\ r \in rows
    /\ pc' = [pc EXCEPT ![p] = "done"]
    /\ op' = [op EXCEPT ![p] = "get_age"]
    /\ vt' = [vt EXCEPT ![p] = r]
    /\ ret' = [ret EXCEPT ![p] = GetAgeResult(r, refdate, now)]
    /\ args' = [args EXCEPT ![p] = <<refdate>>]
    /\ UNCHANGED <<rows, nextId, now, ent, created, caught, calls, saves, overlap>>

\* Meta.ordering = ['views', '-last_view', 'first_view']: row a comes
\* strictly before row b.
MostViewedFirst(a, b) ==
    \/ a.views > b.views
    \/ a.views = b.views /\ a.last_view > b.last_view
    \/ a.views = b.views /\ a.last_view = b.last_view /\ a.first_view < b.first_view
DefaultOrdering(a, b) ==
    \/ a.views < b.views
    \/ a.views = b.views /\ a.last_view > b.last_view
    \/ a.views = b.views /\ a.last_view = b.last_view /\ a.first_view < b.first_view

\* The ways a SELECT may hand back the rows S: each row once, in some order.
Arrangements(S) ==
    {s \in [1..Cardinality(S) -> S] :
        \A i, j \in 1..Cardinality(S) : i # j => s[i] # s[j]}

\* The rows S as a QuerySet without order_by returns them: ORDER BY the
\* default ordering; no row comes after one it precedes, rows that tie come
\* in any order.
DefaultOrdered(S) ==
    {s \in Arrangements(S) :
        \A i, j \in 1..Cardinality(S) : i < j => ~DefaultOrdering(s[j], s[i])}

\* select_age: the extra column, select_string = "first_view - '%s'" % refdate.
AgeColumn(r, refdate) == r.first_view - refdate

\* A row with the extra column of extra(select={'age': ...}).
WithAge(r, refdate) ==
    [id |-> r.id, content_type |-> r.content_type, object_id |-> r.object_id,
     first_view |-> r.first_view, last_view |-> r.last_view, views |-> r.views,
     age |-> AgeColumn(r, refdate)]

\* objects.select_age(refdate), evaluated: every row, with its age, in the
\* default ordering.
SelectAge(p, refdate) ==
    /\ pc[p] = "idle"
    /\ pc' = [pc EXCEPT ![p] = "done"]
    /\ op' = [op EXCEPT ![p] = "select_age"]
    /\ \E s \in DefaultOrdered(rows) :
          ret' = [ret EXCEPT ![p] =
                    ReturnedList([i \in 1..Len(s) |-> WithAge(s[i], RefdateOrNow(refdate, now))])]
    /\ args' = [args EXCEPT ![p] = <<refdate>>]
    /\ UNCHANGED <<rows, nextId, now, ent, vt, created, caught, calls, saves, overlap>>

\* order_by('-last_view'): row a comes strictly before row b.  (order_by
\* replaces the default ordering.)
ByLastViewDesc(a, b) == a.last_view > b.last_view

\* The rows S under ORDER BY last_view DESC.
LastViewOrdered(S) ==
    {s \in Arrangements(S) :
        \A i, j \in 1..Cardinality(S) : i < j => ~ByLastViewDesc(s[j], s[i])}

\* .limit(limit) on the QuerySet that order_by returned: QuerySet has no
\* attribute limit (a QuerySet is limited by slicing), so the attribute
\* lookup raises AttributeError before anything is fetched.
QuerySetLimit(s, limit) == Raised("AttributeError")

\* objects.get_recently_viewed(limit)
GetRecentlyViewed(p, limit) ==
    /\ pc[p] = "idle"
    /\ pc' = [pc EXCEPT ![p] = "done"]
    /\ op' = [op EXCEPT ![p] = "get_recently_viewed"]
    /\ \E s \in LastViewOrdered(rows) :
          ret' = [ret EXCEPT ![p] = QuerySetLimit(s, limit)]
    /\ args' = [args EXCEPT ![p] = <<limit>>]
    /\ UNCHANGED <<rows, nextId, now, ent, vt, created, caught, calls, saves, overlap>>

\* A QuerySet on the table rs is modelled by the set of rows its WHERE
\* clause selects; evaluating it orders them.
\* self.none(): the empty QuerySet.
AllQuerySet(rs) == rs
NoneQuerySet(rs) == {}

\* qs | other: the rows of either (one table, no join: no row twice).
QsOr(a, b) == a \cup b

\* get_for_objects: qs = self.none(), then for each obj in turn
\* qs = qs | self.filter(content_type=ct, object_id=obj.pk).
RECURSIVE ForObjects(_, _)
ForObjects(rs, objects) ==
    IF objects = <<>> THEN NoneQuerySet(rs)
    ELSE LET n == Len(objects)
             obj == objects[n] IN
         QsOr(ForObjects(rs, SubSeq(objects, 1, n - 1)), Filter(rs, obj[1], obj[2]))

\* objects.get_for_objects(objects), evaluated.
GetForObjects(p, objects) ==
    /\ pc[p] = "idle"
    /\ pc' = [pc EXCEPT ![p] = "done"]
    /\ op' = [op EXCEPT ![p] = "get_for_objects"]
    /\ \E s \in DefaultOrdered(ForObjects(rows, objects)) :
          ret' = [ret EXCEPT ![p] = ReturnedList(s)]
    /\ args' = [args EXCEPT ![p] = objects]
    /\ UNCHANGED <<rows, nextId, now, ent, vt, created, caught, calls, saves, overlap>>

\* filter(content_type__in=cts): the content type is one of the list.
ContentTypeIsFirst(ct, cts) == cts # <<>> /\ cts[1] = ct
ContentTypeIn(ct, cts) == \E i \in 1..Len(cts) : cts[i] = ct

\* get_for_models: cts collects the ContentType of each model (a model is
\* named here by its content type), then self.filter(content_type__in=cts).
ForModels(rs, models) ==
    LET cts == [i \in 1..Len(models) |-> models[i]] IN
    {r \in rs : ContentTypeIn(r.content_type, cts)}

\* objects.get_for_models(models), evaluated.
GetForModels(p, models) ==
    /\ pc[p] = "idle"
    /\ pc' = [pc EXCEPT ![p] = "done"]
    /\ op' = [op EXCEPT ![p] = "get_for_models"]
    /\ \E s \in DefaultOrdered(ForModels(rows, models)) :
          ret' = [ret EXCEPT ![p] = ReturnedList(s)]
    /\ args' = [args EXCEPT ![p] = models]
    /\ UNCHANGED <<rows, nextId, now, ent, vt, created, caught, calls, saves, overlap>>

\* objects.get_for_model(model): return self.get_for_models([model]), evaluated.
GetForModel(p, model) ==
    /\ pc[p] = "idle"
    /\ pc' = [pc EXCEPT ![p] = "done"]
    /\ op' = [op EXCEPT ![p] = "get_for_model"]
    /\ \E s \in DefaultOrdered(ForModels(rows, <<model>>)) :
          ret' = [ret EXCEPT ![p] = ReturnedList(s)]
    /\ args' = [args EXCEPT ![p] = <<model>>]
    /\ UNCHANGED <<rows, nextId, now, ent, vt, created, caught, calls, saves, overlap>>

\* The argument lists the queries are tried on.
SeqsUpTo(S, n) == UNION {[1..k -> S] : k \in 0..n}
ObjectLists == SeqsUpTo(QueryEntities, MaxList)
ModelLists == SeqsUpTo(QueryModels, MaxList)

NextQuery ==
    \/ \E p \in QueryCallers, objects \in ObjectLists : GetForObjects(p, objects)
    \/ \E p \in QueryCallers, models \in ModelLists : GetForModels(p, models)
    \/ \E p \in QueryCallers, model \in QueryModels : GetForModel(p, model)
    \/ \E p \in QueryCallers, n \in 0..MaxLimit : GetRecentlyViewed(p, n)
    \/ \E p \in QueryCallers, d \in Stamps \cup {NoRefdate} : SelectAge(p, d)
    \/ \E p \in QueryCallers, r \in rows, d \in Stamps \cup {NoRefdate} : GetAge(p, r, d)
    \/ \E p \in QueryCallers : Return(p)

SpecQuery == InitQuery /\ [][NextQuery]_vars

\* ------------------------------------------------------------------ properties
\* The rows stored for entity e.
RowsOf(e) == Filter(rows, e[1], e[2])

\* Caller q is inside add_view_for(e) and has not yet sent its UPDATE.
Running(q, e) == InAddView(q, e) /\ pc[q] # "done"

\* C1: once every add_view_for call on an entity has completed, the stored
\* views of its record equals the number of those calls (no lost update).
C1_NoLostUpdate ==
    \A e \in Entities :
        (saves[e] >= 1 /\ ~\E q \in Procs : Running(q, e))
            => (RowsOf(e) # {} /\ \A r \in RowsOf(e) : r.views = saves[e])

\* C2: at most one row is stored for each (content_type, object_id) pair.
C2_AtMostOneRecord ==
    \A e \in Entities : Cardinality(RowsOf(e)) <= 1

\* Two callers raced to create the row of the same absent entity: one INSERT
\* went through, the other was refused, and one row is stored.
C2_CreationRace ==
    \E p \in Procs, q \in Procs :
        /\ p # q /\ ent[p] = ent[q]
        /\ caught[p] /\ created[q]
        /\ Cardinality(RowsOf(ent[p])) = 1

\* C3: add_view_for calls on an entity that never overlap leave exactly one
\* row for it, whose views is the number of calls made; only the first of
\* them creates the row.
C3_SequentialCount ==
    \A e \in Entities :
        ~overlap[e] =>
            /\ (saves[e] >= 1 /\ ~\E q \in Procs : Running(q, e))
                  => (Cardinality(RowsOf(e)) = 1 /\ \A r \in RowsOf(e) : r.views = saves[e])
            /\ \A p \in Procs :
                  (InAddView(p, e) /\ created[p])
                      => saves[e] = (IF pc[p] = "done" THEN 1 ELSE 0)

\* Two add_view_for calls on an entity have run one after the other.
C3_TwoSequentialCalls ==
    \E e \in Entities :
        /\ ~overlap[e] /\ saves[e] >= 2
        /\ ~\E q \in Procs : Running(q, e)
        /\ \E r \in RowsOf(e) : r.views >= 2

\* C4: the stored views of a row is non-negative and never decreases from
\* one state to the next.
C4_ViewsMonotone ==
    [][\A r \in rows :
          /\ r.views >= 0
          /\ \A r2 \in rows' : r2.id = r.id => r2.views >= r.views]_vars

\* C5: a call of add_view_for or get_for_object(create=True) ends by
\* returning the row of its entity, never in an IntegrityError (or any other
\* exception), also when its INSERT lost the race for the row.
C5_NoDuplicateKeyError ==
    \A p \in Procs :
        (pc[p] = "done" /\ op[p] \in {"add_view_for", "get_for_object_create"})
            => /\ ret[p].kind = "record"
               /\ ret[p].rec.id # 0
               /\ ret[p].rec.content_type = ent[p][1]
               /\ ret[p].rec.object_id = ent[p][2]

\* A call whose INSERT was refused has returned.
C5_LoserReturned ==
    \E p \in Procs :
        /\ pc[p] = "done" /\ caught[p]
        /\ op[p] \in {"add_view_for", "get_for_object_create"}

\* C6: get_views_for returns 0 when the entity has no row and the row's stored
\* views otherwise; it raises nothing and leaves the table as it was.
C6_GetViewsFor ==
    [][\A p \in Procs :
          (pc[p] = "idle" /\ op'[p] = "get_views_for")
              => /\ rows' = rows
                 /\ nextId' = nextId
                 /\ ret'[p].kind = "int"
                 /\ RowsOf(ent'[p]) = {} => ret'[p].val = 0
                 /\ \A r \in RowsOf(ent'[p]) : ret'[p].val = r.views]_vars

\* get_views_for has answered 0 for an entity without a row and a positive
\* count for an entity with one.
C6_BothAnswers ==
    \E p \in Procs, q \in Procs :
        /\ op[p] = "get_views_for" /\ pc[p] = "done"
        /\ RowsOf(ent[p]) = {} /\ ret[p] = ReturnedInt(0)
        /\ op[q] = "get_views_for" /\ pc[q] = "done"
        /\ ret[q].kind = "int" /\ ret[q].val >= 1

\* C7: get_for_object with create=False returns the entity's row when there
\* is one and raises DoesNotExist when there is none; it leaves the table as
\* it was.
C7_GetForObjectReadOnly ==
    [][\A p \in Procs :
          (pc[p] = "idle" /\ op'[p] = "get_for_object")
              => /\ rows' = rows
                 /\ nextId' = nextId
                 /\ RowsOf(ent'[p]) = {} => ret'[p] = Raised("DoesNotExist")
                 /\ \A r \in RowsOf(ent'[p]) : ret'[p] = Returned(r)]_vars

\* get_for_object(create=False) has raised DoesNotExist for one entity and
\* returned the row of another.
C7_BothOutcomes ==
    \E p \in Procs, q \in Procs :
        /\ op[p] = "get_for_object" /\ pc[p] = "done"
        /\ RowsOf(ent[p]) = {} /\ ret[p].kind = "DoesNotExist"
        /\ op[q] = "get_for_object" /\ pc[q] = "done"
        /\ ret[q].kind = "record" /\ ret[q].rec \in rows

\* C8: a row with views = 0 is never seen by another caller: while the
\* add_view_for call that created a row is between its INSERT and its
\* UPDATE, no get_for_object(create=False) and no other add_view_for gets
\* that row with views = 0.
C8_ZeroViewsNeverObserved ==
    \A p \in Procs, q \in Procs :
        (/\ p # q
         /\ InAddView(p, ent[p]) /\ created[p] /\ pc[p] \in {"increment", "save"}
         /\ ent[q] = ent[p])
            => /\ (op[q] = "get_for_object" /\ pc[q] = "done" /\ ret[q].kind = "record")
                    => ret[q].rec.views # 0
               /\ (op[q] = "add_view_for" /\ pc[q] = "increment")
                    => vt[q].views # 0

\* C9: a row's first_view is the time its creator's pre_save read, and is
\* the same in every later state; no row is ever removed.
C9_FirstViewImmutable ==
    [][/\ \A r \in rows : \E r2 \in rows' : r2.id = r.id /\ r2.first_view = r.first_view
       /\ \A r2 \in rows' :
             (\A r \in rows : r.id # r2.id)
                 => \E p \in Procs : pc[p] = "goc_insert" /\ r2.first_view = vt[p].first_view]_vars

\* A row was saved from a stale in-memory copy (an increment was lost) at a
\* time later than its creation.
C9_StaleSaveLater ==
    \E e \in Entities : \E r \in RowsOf(e) :
        /\ saves[e] >= 2 /\ r.views < saves[e]
        /\ r.first_view < r.last_view

\* C10: a row's stored last_view never decreases from one state to the next
\* and is never earlier than its first_view.
C10_LastViewMonotone ==
    [][\A r2 \in rows' :
          /\ r2.last_view >= r2.first_view
          /\ \A r \in rows : r.id = r2.id => r2.last_view >= r.last_view]_vars

\* Caller p's step is a call of the query named name.
Calls(p, name) == pc[p] = "idle" /\ op'[p] = name

\* C11: get_age(refdate) returns refdate - first_view when refdate >=
\* first_view (refdate being now when none is given) and fails its assertion
\* when refdate < first_view; it never returns a negative duration and
\* leaves the table and the instance as they were.
C11_GetAge ==
    [][\A p \in Procs :
          Calls(p, "get_age")
              => LET r == vt'[p]
                     d == args'[p][1] IN
                 /\ rows' = rows
                 /\ r \in rows
                 /\ (d \in Stamps /\ d >= r.first_view)
                       => ret'[p] = ReturnedInt(d - r.first_view)
                 /\ (d \in Stamps /\ d < r.first_view)
                       => ret'[p] = Raised("AssertionError")
                 /\ d = NoRefdate => ret'[p] = ReturnedInt(now - r.first_view)
                 /\ ret'[p].val >= 0]_vars

\* get_age was called with a reference date earlier than the row's
\* first_view and failed its assertion.
C11_AssertionFailed ==
    \E p \in Procs :
        /\ op[p] = "get_age" /\ pc[p] = "done"
        /\ vt[p] \in rows /\ args[p][1] \in Stamps /\ args[p][1] < vt[p].first_view
        /\ ret[p].kind = "AssertionError"

\* C12: select_age(refdate) gives every row it returns the age
\* refdate - first_view, the value get_age(refdate) returns for that row,
\* whenever refdate >= first_view, and stores nothing.
C12_SelectAgeIsGetAge ==
    [][\A p \in Procs :
          (Calls(p, "select_age") /\ args'[p][1] \in Stamps)
              => LET d == args'[p][1] IN
                 /\ rows' = rows
                 /\ Len(ret'[p].recs) = Cardinality(rows)
                 /\ \A i \in 1..Len(ret'[p].recs) :
                       LET a == ret'[p].recs[i] IN
                       d >= a.first_view
                           => /\ a.age = d - a.first_view
                              /\ ReturnedInt(a.age) = GetAgeResult(a, d, now)]_vars

\* The smaller of two numbers.
Min(a, b) == IF a <= b THEN a ELSE b

\* C13: get_recently_viewed(limit) raises nothing and returns min(limit,
\* number of rows) rows, latest last_view first, none of the rows left out
\* having a later last_view than one returned.
C13_RecentlyViewed ==
    [][\A p \in Procs :
          Calls(p, "get_recently_viewed")
              => LET out == ret'[p].recs
                     n == args'[p][1] IN
                 /\ ret'[p].kind = "list"
                 /\ Len(out) = Min(n, Cardinality(rows))
                 /\ \A i \in 1..Len(out) : out[i] \in rows
                 /\ \A i, j \in 1..Len(out) :
                       i < j => out[i] # out[j] /\ out[i].last_view >= out[j].last_view
                 /\ \A r \in rows :
                       (\A i \in 1..Len(out) : out[i] # r)
                           => \A i \in 1..Len(out) : out[i].last_view >= r.last_view]_vars

\* The rows a list holds.
RowsIn(s) == {s[i] : i \in 1..Len(s)}

\* C14: get_for_objects(objects) returns exactly the stored rows whose
\* (content_type, object_id) is that of a listed object, each once: nothing
\* for an empty list, no row of an unlisted object; it stores nothing.
C14_GetForObjects ==
    [][\A p \in Procs :
          Calls(p, "get_for_objects")
              => LET out == ret'[p].recs
                     objects == args'[p] IN
                 /\ rows' = rows /\ nextId' = nextId
                 /\ ret'[p].kind = "list"
                 /\ RowsIn(out) =
                       {r \in rows : \E i \in 1..Len(objects) :
                           r.content_type = objects[i][1] /\ r.object_id = objects[i][2]}
                 /\ Len(out) = Cardinality(RowsIn(out))
                 /\ objects = <<>> => out = <<>>]_vars

\* get_for_objects was given an object twice and an object without a row;
\* it has returned the one row listed and left another row out.
C14_SomeRowsReturned ==
    \E p \in Procs :
        /\ op[p] = "get_for_objects" /\ pc[p] = "done"
        /\ Len(args[p]) = 2 /\ args[p][1] = args[p][2]
        /\ Len(ret[p].recs) = 1
        /\ Cardinality(rows) = 2

\* Row a may come before row b: views ascending, then last_view
\* descending, then first_view ascending.
MayPrecede(a, b) ==
    \/ a.views < b.views
    \/ /\ a.views = b.views
       /\ \/ a.last_view > b.last_view
          \/ a.last_view = b.last_view /\ a.first_view <= b.first_view

\* C15: get_for_model, get_for_models and get_for_objects return their rows
\* sorted by views ascending, then last_view descending, then first_view
\* ascending.
C15_DefaultOrdering ==
    \A p \in Procs :
        (pc[p] = "done" /\ op[p] \in {"get_for_model", "get_for_models", "get_for_objects"})
            => \A i, j \in 1..Len(ret[p].recs) :
                  i < j => MayPrecede(ret[p].recs[i], ret[p].recs[j])

\* The rows A(views=1, last_view=1), B(views=1, last_view=0) and
\* C(views=0, last_view=2) have been returned as [C, A, B].
C15_ExampleCAB ==
    \E p \in Procs :
        /\ pc[p] = "done" /\ op[p] \in {"get_for_model", "get_for_models", "get_for_objects"}
        /\ Len(ret[p].recs) = 3
        /\ LET out == ret[p].recs IN
           /\ out[1].views = 0 /\ out[1].last_view = 2
           /\ out[2].views = 1 /\ out[2].last_view = 1
           /\ out[3].views = 1 /\ out[3].last_view = 0

\* C16: get_for_models(models) returns exactly the rows whose content type
\* is that of one of the models, each once, which is the union of
\* get_for_model(m) over the models; get_for_model(m) returns what
\* get_for_models([m]) returns, and get_for_models([]) returns nothing.
C16_GetForModels ==
    [][\A p \in Procs :
          /\ Calls(p, "get_for_models")
                => LET out == ret'[p].recs
                       models == args'[p] IN
                   /\ rows' = rows
                   /\ ret'[p].kind = "list"
                   /\ RowsIn(out) =
                         {r \in rows : \E i \in 1..Len(models) : r.content_type = models[i]}
                   /\ RowsIn(out) =
                         UNION {ForModels(rows, <<models[i]>>) : i \in 1..Len(models)}
                   /\ Len(out) = Cardinality(RowsIn(out))
                   /\ models = <<>> => out = <<>>
          /\ Calls(p, "get_for_model")
                => LET out == ret'[p].recs
                       m == args'[p][1] IN
                   /\ rows' = rows
                   /\ ret'[p].kind = "list"
                   /\ RowsIn(out) = {r \in rows : r.content_type = m}
                   /\ RowsIn(out) = ForModels(rows, <<m>>)
                   /\ Len(out) = Cardinality(RowsIn(out))]_vars

\* get_for_models was given two content types and has returned the rows of
\* both, which are all the rows.
C16_TwoTypesReturned ==
    \E p \in Procs :
        /\ op[p] = "get_for_models" /\ pc[p] = "done"
        /\ Len(args[p]) = 2 /\ args[p][1] # args[p][2]
        /\ \E i, j \in 1..Len(ret[p].recs) :
              ret[p].recs[i].content_type # ret[p].recs[j].content_type
        /\ RowsIn(ret[p].recs) = rows

\* C17: get_for_object(create=True) for an entity that has a row returns
\* that row and changes nothing (it creates no second row and rewrites no
\* field), so two calls in sequence return the same record: the same row
\* id and first_view, and the same fields while no increment was saved.
C17_GetOrCreateIdempotent ==
    /\ [][\A p \in Procs :
             (/\ pc[p] = "goc_get" /\ pc'[p] # "goc_get"
              /\ op[p] = "get_for_object_create"
              /\ RowsOf(ent[p]) # {})
                 => /\ rows' = rows /\ nextId' = nextId
                    /\ pc'[p] = "done" /\ ~created'[p]
                    /\ \A r \in RowsOf(ent[p]) : ret'[p] = Returned(r)]_vars
    /\ [](\A p \in Procs, q \in Procs :
             (/\ pc[p] = "done" /\ op[p] = "get_for_object_create"
              /\ pc[q] = "done" /\ op[q] = "get_for_object_create"
              /\ ent[p] = ent[q])
                 => /\ ret[p].rec.id = ret[q].rec.id
                    /\ ret[p].rec.first_view = ret[q].rec.first_view
                    /\ saves[ent[p]] = 0 => ret[p].rec = ret[q].rec)

\* get_for_object(create=True) was called for an entity, created its row and
\* returned; a second call, made after that, found the row and returned it.
C17_SecondCallReturned ==
    \E p \in Procs, q \in Procs :
        /\ p # q /\ ent[p] = ent[q]
        /\ pc[p] = "done" /\ op[p] = "get_for_object_create" /\ created[p]
        /\ pc[q] = "done" /\ op[q] = "get_for_object_create"
        /\ ~created[q] /\ ~caught[q]
        /\ ret[q] = ret[p] /\ ret[q].rec \in rows

\* Caller p takes a step of add_view_for(e).
AddViewStep(p, e) ==
    /\ pc'[p] # pc[p]
    /\ \/ op[p] = "add_view_for" /\ ent[p] = e
       \/ pc[p] = "idle" /\ op'[p] = "add_view_for" /\ ent'[p] = e

\* C18: a step of add_view_for on one entity leaves the row of every other
\* entity as it was: it neither creates, removes nor changes it.
C18_OtherRecordsUntouched ==
    [][\A p \in Procs, e \in Entities, e2 \in Entities :
          (AddViewStep(p, e) /\ e2 # e)
              => Filter(rows', e2[1], e2[2]) = RowsOf(e2)]_vars

\* add_view_for has saved an increment for one entity while another
\* entity has a row with a different count.
C18_TwoEntitiesCounted ==
    \E e \in Entities, e2 \in Entities :
        /\ e # e2 /\ saves[e] >= 2 /\ saves[e2] = 1
        /\ \E r \in RowsOf(e), r2 \in RowsOf(e2) : r.views = 2 /\ r2.views = 1

\* C19: the stored views of an entity's row never exceeds the number of
\* add_view_for calls on it that have performed their save, and is at least
\* 1 once one of them has.
C19_NeverOverCounted ==
    \A e \in Entities :
        /\ \A r \in RowsOf(e) : r.views <= saves[e]
        /\ saves[e] >= 1 => (RowsOf(e) # {} /\ \A r \in RowsOf(e) : r.views >= 1)

\* Two overlapping add_view_for calls have both saved and the row counts one.
C19_UnderCounted ==
    \E e \in Entities :
        /\ saves[e] = 2 /\ overlap[e]
        /\ \E r \in RowsOf(e) : r.views = 1

====
